---- MODULE Spec2Model ----
(***************************************************************************)
(* clonetree: clone_tree(src, dest, options) of crates/clonetree/src/lib.rs *)
(* and the ctree command line of crates/ctree/src/main.rs, over a small     *)
(* filesystem.  A path is a sequence of names; the filesystem maps every    *)
(* path of the universe to a node (absent, directory, or a regular file     *)
(* with its content).                                                       *)
(***************************************************************************)
EXTENDS Integers, Sequences, FiniteSets, TLC

\* ------------------------------------------------------------------ bounds
\* Longest pattern list an invocation is given.
MaxGlobs == 2
\* Number of successive invocations with the same arguments.
MaxRuns == 2

\* ------------------------------------------------------------------- paths
\* The two arguments of clone_tree.
Src == <<"src">>
Dest == <<"dest">>

\* Paths relative to a root that the model's trees may hold.
RelPaths ==
  { <<>>, <<"a.txt">>, <<"keep.txt">>, <<"data">>,
    <<"data", "a.txt">>, <<"data", "b.log">>, <<"data", "keep.txt">> }

Paths == { Src \o r : r \in RelPaths } \cup { Dest \o r : r \in RelPaths }

\* Path::parent
Parent(p) == SubSeq(p, 1, Len(p) - 1)

\* Path::join(dest, relative_path)
Join(root, rel) == root \o rel

\* Path::strip_prefix(src)
StripPrefix(p, root) == SubSeq(p, Len(root) + 1, Len(p))

\* The extension of a file name, as the glob "*.ext" sees it.
Ext(name) ==
  CASE name = "a.txt" -> "txt"
    [] name = "keep.txt" -> "txt"
    [] name = "b.log" -> "log"
    [] OTHER -> ""

\* -------------------------------------------------------------- filesystem
Absent == [kind |-> "none", data |-> 0]
Dir == [kind |-> "dir", data |-> 0]
File(d) == [kind |-> "file", data |-> d]

\* The directory both arguments live in always exists (the tests' TempDir).
NodeAt(f, p) == IF p = <<>> THEN Dir ELSE IF p \in DOMAIN f THEN f[p] ELSE Absent

\* Path::exists
Exists(f, p) == NodeAt(f, p).kind # "none"

\* Path::is_dir
IsDir(f, p) == NodeAt(f, p).kind = "dir"

\* FileType::is_file
IsFile(f, p) == NodeAt(f, p).kind = "file"

\* The entries of directory p (read_dir).
Children(f, p) == { q \in DOMAIN f : Len(q) = Len(p) + 1 /\ Parent(q) = p /\ Exists(f, q) }

\* mkdir(2): the parent must be a directory and the path must not exist.
Mkdir(f, p) ==
  IF p \in DOMAIN f /\ IsDir(f, Parent(p)) /\ ~Exists(f, p)
  THEN [ok |-> TRUE, fs |-> [f EXCEPT ![p] = Dir]]
  ELSE [ok |-> FALSE, fs |-> f]

\* std::fs::create_dir_all: an existing directory is success, a missing
\* parent is created first, anything else in the way is an error.
RECURSIVE CreateDirAll(_, _)
CreateDirAll(f, p) ==
  IF p = <<>> \/ IsDir(f, p) THEN [ok |-> TRUE, fs |-> f]
  ELSE IF Exists(f, p) THEN [ok |-> FALSE, fs |-> f]
  ELSE IF Exists(f, Parent(p)) THEN Mkdir(f, p)
  ELSE LET up == CreateDirAll(f, Parent(p))
       IN IF up.ok THEN Mkdir(up.fs, p) ELSE up

\* std::fs::remove_file: unlinks a regular file; fails on a directory or on
\* a missing entry.
RemoveFile(f, p) ==
  IF IsFile(f, p)
  THEN [ok |-> TRUE, fs |-> [f EXCEPT ![p] = Absent]]
  ELSE [ok |-> FALSE, fs |-> f]

\* std::fs::copy: writes the content of `from` to `to`, creating or
\* truncating it; `to` must not be a directory and its parent must be one.
FsCopy(f, from, to) ==
  IF to \in DOMAIN f /\ IsFile(f, from) /\ IsDir(f, Parent(to)) /\ ~IsDir(f, to)
  THEN [ok |-> TRUE, fs |-> [f EXCEPT ![to] = File(NodeAt(f, from).data)]]
  ELSE [ok |-> FALSE, fs |-> f]

\* reflink_copy::reflink: clones `from` to a new file `to`; fails when the
\* filesystem cannot share blocks (cow = FALSE) or when `to` exists.
Reflink(f, from, to, cow) ==
  IF cow /\ to \in DOMAIN f /\ IsFile(f, from) /\ IsDir(f, Parent(to)) /\ ~Exists(f, to)
  THEN [ok |-> TRUE, fs |-> [f EXCEPT ![to] = File(NodeAt(f, from).data)]]
  ELSE [ok |-> FALSE, fs |-> f]

\* reflink_copy::reflink_or_copy: the clone is tried first, and any failure
\* of it falls back to std::fs::copy.
ReflinkOrCopy(f, from, to, cow) ==
  LET r == Reflink(f, from, to, cow)
  IN IF r.ok THEN r ELSE FsCopy(f, from, to)

\* ------------------------------------------------------------------- globs
\* A pattern string is the sequence of its path segments, "/" standing
\* between two of them, with a leading "!" as a segment of its own:
\* "!data/**" is <<"!", "data", "**">>.  "[" is an unclosed character class.
Patterns ==
  { <<"*.txt">>, <<"data">>, <<"!", "data", "**">>, <<"!", "data">>, <<"[">> }

\* globset, literal_separator(true): one pattern segment against one name.
SegMatch(tok, name) ==
  CASE tok = "*" -> TRUE
    [] tok = "*.txt" -> Ext(name) = "txt"
    [] tok = "*.log" -> Ext(name) = "log"
    [] OTHER -> tok = name

\* globset: a compiled glob against a relative path; "**" spans any number
\* of segments, every other segment exactly one.
RECURSIVE GlobMatch(_, _)
GlobMatch(toks, rel) ==
  IF toks = <<>> THEN rel = <<>>
  ELSE IF Head(toks) = "**"
       THEN GlobMatch(Tail(toks), rel) \/ (rel # <<>> /\ GlobMatch(toks, Tail(rel)))
       ELSE rel # <<>> /\ SegMatch(Head(toks), Head(rel)) /\ GlobMatch(Tail(toks), Tail(rel))

\* ignore::gitignore::GitignoreBuilder::add_line, as OverrideBuilder::add
\* calls it: "!" marks the glob, a pattern without "/" matches at any depth
\* ("**/" is put in front), and one ending in "/**" matches only what is
\* inside the directory ("/*" is appended).
ParseGlob(line) ==
  LET negated == line # <<>> /\ Head(line) = "!"
      body == IF negated THEN Tail(line) ELSE line
      anywhere == IF Len(body) = 1 /\ Head(body) # "**" THEN <<"**">> \o body ELSE body
      actual == IF Len(anywhere) > 1 /\ anywhere[Len(anywhere)] = "**"
                THEN anywhere \o <<"*">> ELSE anywhere
  IN [valid |-> \A i \in 1..Len(body) : body[i] # "[",
      negated |-> negated,
      toks |-> actual]

\* for pattern in &options.globs { overrides.add(pattern)? }: the compiled
\* globs in list order, or the first pattern that does not compile.
RECURSIVE BuildOverrides(_)
BuildOverrides(globs) ==
  IF globs = <<>> THEN [ok |-> TRUE, ov |-> <<>>, pattern |-> <<>>]
  ELSE LET g == ParseGlob(Head(globs))
       IN IF ~g.valid THEN [ok |-> FALSE, ov |-> <<>>, pattern |-> Head(globs)]
          ELSE LET rest == BuildOverrides(Tail(globs))
               IN IF rest.ok THEN [rest EXCEPT !.ov = <<g>> \o rest.ov] ELSE rest

\* Override::num_whitelists: the globs without "!".
NumWhitelists(ov) == Cardinality({ i \in 1..Len(ov) : ~ov[i].negated })

\* As OverrideMatched, but the first glob that matches decides.
OverrideMatchedFirst(ov, rel, is_dir) ==
  LET hits == { i \in 1..Len(ov) : GlobMatch(ov[i].toks, rel) }
      first == CHOOSE i \in hits : \A j \in hits : i <= j
  IN IF ov = <<>> THEN "None"
     ELSE IF hits # {} THEN (IF ov[first].negated THEN "Ignore" ELSE "Whitelist")
     ELSE IF NumWhitelists(ov) > 0 /\ ~is_dir THEN "Ignore"
     ELSE "None"

\* ignore::overrides::Override::matched: no globs, no opinion; otherwise
\* the last glob of the list that matches the path decides; and a file that
\* no glob matches is ignored as soon as one glob is a whitelist.
OverrideMatched(ov, rel, is_dir) ==
  LET hits == { i \in 1..Len(ov) : GlobMatch(ov[i].toks, rel) }
      last == CHOOSE i \in hits : \A j \in hits : j <= i
  IN IF ov = <<>> THEN "None"
     ELSE IF hits # {} THEN (IF ov[last].negated THEN "Ignore" ELSE "Whitelist")
     ELSE IF NumWhitelists(ov) > 0 /\ ~is_dir THEN "Ignore"
     ELSE "None"

\* As ShouldSkipEntry, but a directory that no whitelist glob matches is
\* skipped as a file would be.
ShouldSkipEntryStrict(f, ov, rel) == OverrideMatched(ov, rel, FALSE) = "Ignore"

\* ignore::walk: an entry the overrides ignore is neither yielded nor, when
\* it is a directory, descended into.
ShouldSkipEntry(f, ov, rel) == OverrideMatched(ov, rel, IsDir(f, Join(Src, rel))) = "Ignore"

\* As NextEntries, but a file already yielded is yielded again.
RECURSIVE NextEntriesAgain(_, _, _, _)
NextEntriesAgain(f, ov, stk, seen) ==
  IF stk = <<>> THEN {}
  ELSE LET top == stk[Len(stk)]
           cands == { StripPrefix(q, Src) : q \in Children(f, Join(Src, top)) }
           open == { r \in cands : (r \notin seen \/ IsFile(f, Join(Src, r)))
                                    /\ ~ShouldSkipEntry(f, ov, r) }
       IN IF open # {}
          THEN { [rel |-> r, stack |-> stk] : r \in open }
          ELSE NextEntriesAgain(f, ov, SubSeq(stk, 1, Len(stk) - 1), seen)

\* ignore::Walk::next: depth first; the next entry is an entry of the
\* directory on top of the stack that was not yet yielded, in the order
\* read_dir happens to give, and a directory with none left is popped.
RECURSIVE NextEntries(_, _, _, _)
NextEntries(f, ov, stk, seen) ==
  IF stk = <<>> THEN {}
  ELSE LET top == stk[Len(stk)]
           cands == { StripPrefix(q, Src) : q \in Children(f, Join(Src, top)) }
           open == { r \in cands : r \notin seen /\ ~ShouldSkipEntry(f, ov, r) }
       IN IF open # {}
          THEN { [rel |-> r, stack |-> stk] : r \in open }
          ELSE NextEntries(f, ov, SubSeq(stk, 1, Len(stk) - 1), seen)

\* ------------------------------------------------------------------- state
VARIABLES
  fs,            \* the filesystem: Paths -> node
  options,       \* Options { globs, overwrite }
  no_reflink,    \* Args::no_reflink of the command line
  pc,            \* where clone_tree stands
  result,        \* what clone_tree returned
  created_dirs,  \* HashSet of destination directories already created
  overrides,     \* the compiled globs given to the walker
  stack,         \* the walker's open directories, innermost last
  yielded,       \* the entries the walker has produced
  entry,         \* the file entry of the current loop iteration
  copied,        \* the copies this invocation made, in order: the file and
                 \* whether its destination parent was a directory when
                 \* the copy started
  cloned,        \* the files this invocation tried a reflink clone of
  fs0,           \* the filesystem when this invocation was called
  run,           \* the number of this invocation
  prev_result    \* what the invocation before this one returned

vars ==
  << fs, options, no_reflink, pc, result, created_dirs, overrides, stack,
     yielded, entry, copied, cloned, fs0, run, prev_result >>

\* Result<()>: Ok(()) or one variant of Error with the fields it carries.
Res(tag, path, from, to, pattern) ==
  [tag |-> tag, path |-> path, src |-> from, dest |-> to, pattern |-> pattern]

Pending == Res("Pending", <<>>, <<>>, <<>>, <<>>)
Ok == Res("Ok", <<>>, <<>>, <<>>, <<>>)

\* ----------------------------------------------------------- initial trees
\* A tree under a root: the node of every relative path.
Tree(root, a, keep, data, da, db, dkeep) ==
  [r \in RelPaths |->
     CASE r = <<>> -> root
       [] r = <<"a.txt">> -> a
       [] r = <<"keep.txt">> -> keep
       [] r = <<"data">> -> data
       [] r = <<"data", "a.txt">> -> da
       [] r = <<"data", "b.log">> -> db
       [] OTHER -> dkeep]

\* An entry exists only inside a directory.
WellFormed(t) == \A r \in RelPaths : r # <<>> /\ t[r].kind # "none" => t[Parent(r)].kind = "dir"

\* The source argument: missing, a regular file, or a directory holding any
\* of a.txt, data/, data/a.txt, data/b.log, each file with its own content.
SrcTrees ==
  { t \in { Tree(root, a, Absent, data, da, db, Absent) :
              root \in {Absent, File(7), Dir}, a \in {Absent, File(1)},
              data \in {Absent, Dir}, da \in {Absent, File(2)}, db \in {Absent, File(3)} } :
      WellFormed(t) }

\* The destination argument: missing, a regular file, or a directory with
\* older content: a.txt as a file or as a directory next to a keep.txt the
\* source does not have, data as a file or as a directory, empty or with
\* an older a.txt and a keep.txt of its own.
DestTrees ==
  { t \in { Tree(root, a, keep, data, da, Absent, dkeep) :
              root \in {Absent, File(0), Dir}, a \in {Absent, File(0), Dir},
              keep \in {Absent, File(0)}, data \in {Absent, File(0), Dir},
              da \in {Absent, File(0)}, dkeep \in {Absent, File(0)} } :
      /\ WellFormed(t)
      /\ t[<<"a.txt">>].kind = "none" <=> t[<<"keep.txt">>].kind = "none"
      /\ t[<<"data", "a.txt">>].kind = "none" <=> t[<<"data", "keep.txt">>].kind = "none" }

\* Pattern lists of at most MaxGlobs patterns.
GlobLists == UNION { [1..n -> Patterns] : n \in 0..MaxGlobs }

Init ==
  /\ \E s \in SrcTrees, d \in DestTrees :
       fs = [p \in Paths |-> IF Head(p) = "src" THEN s[Tail(p)] ELSE d[Tail(p)]]
  /\ \E g \in GlobLists, ow \in BOOLEAN : options = [globs |-> g, overwrite |-> ow]
  \* The library's Options has no such field: only the command line sets
  \* it, and the command line never sets overwrite.
  /\ no_reflink \in IF options.overwrite THEN {FALSE} ELSE BOOLEAN
  /\ pc = "validate"
  /\ result = Pending
  /\ created_dirs = {}
  /\ overrides = <<>>
  /\ stack = <<>>
  /\ yielded = {}
  /\ entry = <<>>
  /\ copied = <<>>
  /\ cloned = {}
  /\ fs0 = fs
  /\ run = 1
  /\ prev_result = Pending

\* clone_tree returns r.
Return(r) ==
  /\ pc' = "done"
  /\ result' = r

\* ------------------------------------------------------ clone_tree, parts
\* As ValidationError, but an existing destination is refused even with
\* overwrite set.
ValidationErrorNoOverwrite(f, opts) ==
  IF ~Exists(f, Src) THEN "SourceNotFound"
  ELSE IF ~IsDir(f, Src) THEN "SourceNotDirectory"
  ELSE IF Exists(f, Dest) THEN "DestinationExists"
  ELSE "none"

\* As ValidationError, but with the destination checked first.
ValidationErrorDestFirst(f, opts) ==
  IF Exists(f, Dest) /\ ~opts.overwrite THEN "DestinationExists"
  ELSE IF ~Exists(f, Src) THEN "SourceNotFound"
  ELSE IF ~IsDir(f, Src) THEN "SourceNotDirectory"
  ELSE "none"

\* lib.rs 126-145: the three checks in their order; "none" lets the call go on.
ValidationError(f, opts) ==
  IF ~Exists(f, Src) THEN "SourceNotFound"
  ELSE IF ~IsDir(f, Src) THEN "SourceNotDirectory"
  ELSE IF Exists(f, Dest) /\ ~opts.overwrite THEN "DestinationExists"
  ELSE "none"

\* As EnsureDest, but an existing destination is emptied first.
EnsureDestFresh(f) ==
  IF ~Exists(f, Dest) THEN CreateDirAll(f, Dest)
  ELSE [ok |-> TRUE,
        fs |-> [p \in DOMAIN f |->
                  IF Head(p) # "dest" THEN f[p] ELSE IF p = Dest THEN Dir ELSE Absent]]

\* lib.rs 147-153: the destination is created only when nothing is there.
EnsureDest(f) ==
  IF ~Exists(f, Dest) THEN CreateDirAll(f, Dest) ELSE [ok |-> TRUE, fs |-> f]

\* As DestPath, but with the file name alone joined to dest.
DestPathFlat(path) == Join(Dest, <<path[Len(path)]>>)

\* lib.rs 192-195: the destination path mirrors the path relative to src.
DestPath(path) == Join(Dest, StripPrefix(path, Src))

\* lib.rs 200-209: the parent is created unless created_dirs holds it.
EnsureParent(f, created, parent) ==
  IF parent \notin created THEN CreateDirAll(f, parent) ELSE [ok |-> TRUE, fs |-> f]

\* lib.rs 212-214: with overwrite, whatever exists at the destination path
\* is handed to remove_file.
RemoveExisting(f, opts, dest_path) ==
  IF opts.overwrite /\ Exists(f, dest_path) THEN RemoveFile(f, dest_path)
  ELSE [ok |-> TRUE, fs |-> f]

\* lib.rs 213: a failed remove_file becomes Error::Io, which has no paths.
RemoveFailure(path, dest_path) == Res("Io", <<>>, <<>>, <<>>, <<>>)

\* lib.rs 217-221: a failed copy becomes Error::Copy { src, dest }.
CopyFailure(path, dest_path) == Res("Copy", <<>>, path, dest_path, <<>>)

\* lib.rs 217: every file goes through reflink_or_copy; Options (lib.rs
\* 96-100) has no no_reflink to look at.  The result says whether a clone
\* was tried.
CopyContent(f, path, dest_path, cow, nr) ==
  [tried |-> TRUE, out |-> ReflinkOrCopy(f, path, dest_path, cow)]

\* ----------------------------------------------------------------- actions
\* lib.rs 126-145
Validate ==
  /\ pc = "validate"
  /\ LET err == ValidationError(fs, options)
     IN IF err # "none"
        THEN Return(Res(err, IF err = "DestinationExists" THEN Dest ELSE Src,
                        <<>>, <<>>, <<>>))
        ELSE pc' = "create_dest" /\ result' = result
  /\ UNCHANGED << fs, options, no_reflink, created_dirs, overrides, stack,
                  yielded, entry, copied, cloned, fs0, run, prev_result >>

\* lib.rs 147-157: the destination is created when it is missing, and is
\* recorded as created whatever it is.
CreateDest ==
  /\ pc = "create_dest"
  /\ LET made == EnsureDest(fs)
     IN /\ fs' = made.fs
        /\ IF ~made.ok
           THEN /\ Return(Res("CreateDirectory", Dest, <<>>, <<>>, <<>>))
                /\ created_dirs' = created_dirs
           ELSE /\ created_dirs' = {Dest}
                /\ pc' = "build"
                /\ result' = result
  /\ UNCHANGED << options, no_reflink, overrides, stack, yielded, entry,
                  copied, cloned, fs0, run, prev_result >>

\* lib.rs 159-182: the globs are compiled, and the walker starts at the
\* source root, which the loop skips (lib.rs 187-189).
BuildWalker ==
  /\ pc = "build"
  /\ LET built == BuildOverrides(options.globs)
     IN IF ~built.ok
        THEN /\ Return(Res("InvalidGlob", <<>>, <<>>, <<>>, built.pattern))
             /\ UNCHANGED << overrides, stack >>
        ELSE /\ overrides' = built.ov
             /\ stack' = << <<>> >>
             /\ pc' = "walk"
             /\ result' = result
  /\ UNCHANGED << fs, options, no_reflink, created_dirs, yielded, entry,
                  copied, cloned, fs0, run, prev_result >>

\* lib.rs 182-209: the walker yields its next entry; a directory is passed
\* over, and for a file the parent of its destination path is created
\* unless created_dirs holds it.
WalkEntry ==
  /\ pc = "walk"
  /\ \E e \in NextEntries(fs, overrides, stack, yielded) :
       LET path == Join(Src, e.rel)
           parent == Parent(DestPath(path))
           made == EnsureParent(fs, created_dirs, parent)
       IN /\ yielded' = yielded \cup {e.rel}
          /\ IF ~IsFile(fs, path)
             THEN /\ stack' = IF IsDir(fs, path) THEN e.stack \o <<e.rel>> ELSE e.stack
                  /\ UNCHANGED << fs, pc, result, created_dirs, entry >>
             ELSE /\ stack' = e.stack
                  /\ fs' = made.fs
                  /\ IF ~made.ok
                     THEN /\ Return(Res("CreateDirectory", parent, <<>>, <<>>, <<>>))
                          /\ UNCHANGED << created_dirs, entry >>
                     ELSE /\ created_dirs' = created_dirs \cup {parent}
                          /\ entry' = e.rel
                          /\ pc' = "copy"
                          /\ result' = result
  /\ UNCHANGED << options, no_reflink, overrides, copied, cloned, fs0, run, prev_result >>

\* lib.rs 211-221: an existing destination entry is removed first when
\* overwrite is set, then the file is cloned or copied.  Whether the
\* filesystem can clone is the environment's choice.
CopyFile ==
  /\ pc = "copy"
  /\ \E cow \in BOOLEAN :
       LET path == Join(Src, entry)
           dest_path == DestPath(path)
           removed == RemoveExisting(fs, options, dest_path)
           done == CopyContent(removed.fs, path, dest_path, cow, no_reflink)
       IN IF ~removed.ok
          THEN /\ Return(RemoveFailure(path, dest_path))
               /\ fs' = removed.fs
               /\ UNCHANGED << copied, cloned >>
          ELSE /\ cloned' = IF done.tried THEN cloned \cup {entry} ELSE cloned
               /\ fs' = done.out.fs
               /\ IF ~done.out.ok
                  THEN /\ Return(CopyFailure(path, dest_path))
                       /\ UNCHANGED copied
                  ELSE /\ copied' = Append(copied,
                                      [rel |-> entry,
                                       parent_dir |-> IsDir(fs, Parent(dest_path))])
                       /\ pc' = "walk"
                       /\ result' = result
  /\ UNCHANGED << options, no_reflink, created_dirs, overrides, stack, yielded,
                  entry, fs0, run, prev_result >>

\* lib.rs 223-225: the walker is exhausted.
Finish ==
  /\ pc = "walk"
  /\ NextEntries(fs, overrides, stack, yielded) = {}
  /\ Return(Ok)
  /\ UNCHANGED << fs, options, no_reflink, created_dirs, overrides, stack,
                  yielded, entry, copied, cloned, fs0, run, prev_result >>

\* After a successful clone the caller invokes clone_tree again with the
\* same arguments; the locals of the invocation before are gone.
Rerun ==
  /\ pc = "done"
  /\ result = Ok
  /\ run < MaxRuns
  /\ run' = run + 1
  /\ prev_result' = result
  /\ fs0' = fs
  /\ pc' = "validate"
  /\ result' = Pending
  /\ created_dirs' = {}
  /\ overrides' = <<>>
  /\ stack' = <<>>
  /\ yielded' = {}
  /\ entry' = <<>>
  /\ copied' = <<>>
  /\ cloned' = {}
  /\ UNCHANGED << fs, options, no_reflink >>

Next ==
  \/ Validate
  \/ CreateDest
  \/ BuildWalker
  \/ WalkEntry
  \/ CopyFile
  \/ Finish
  \/ Rerun

Spec == Init /\ [][Next]_vars

\* ------------------------------------------------------------------- types
TypeOK ==
  /\ DOMAIN fs = Paths
  /\ pc \in {"validate", "create_dest", "build", "walk", "copy", "done"}
  /\ (pc = "done") = (result.tag # "Pending")
  /\ run \in 1..MaxRuns

\* ------------------------------------------------------------ observations
\* The relative paths of the regular files under a root.
FilesUnder(f, root) == { r \in RelPaths : r # <<>> /\ IsFile(f, Join(root, r)) }

\* The files this invocation copied.
CopiedSet == { copied[i].rel : i \in 1..Len(copied) }

\* The invocation returned Ok.
Succeeded == pc = "done" /\ result = Ok

\* The destination file at r holds the content of the source file at r.
Mirrors(f, r) ==
  /\ IsFile(f, Join(Dest, r))
  /\ NodeAt(f, Join(Dest, r)) = NodeAt(f, Join(Src, r))

\* ---------------------------------------------------------------------- C1
\* C1: with no glob patterns and a destination that did not exist, after
\* clone_tree returned Ok the regular files under the destination are, by
\* relative path, exactly the regular files under the source, each with the
\* content of the source file at the same relative path.
C1_FullFidelity ==
  (Succeeded /\ options.globs = <<>> /\ ~Exists(fs0, Dest)) =>
    /\ FilesUnder(fs, Dest) = FilesUnder(fs, Src)
    /\ \A r \in FilesUnder(fs, Src) : Mirrors(fs, r)

C1_Witness ==
  /\ Succeeded /\ options.globs = <<>> /\ ~Exists(fs0, Dest)
  /\ FilesUnder(fs, Src) = { <<"a.txt">>, <<"data", "a.txt">>, <<"data", "b.log">> }
  /\ Len(copied) = 3

\* ---------------------------------------------------------------------- C2
ValidationErrors == {"SourceNotFound", "SourceNotDirectory", "DestinationExists"}

\* C2: a missing source is SourceNotFound, otherwise a source that is not
\* a directory is SourceNotDirectory, otherwise an existing destination
\* without overwrite is DestinationExists, the missing source winning over
\* the existing destination; and after each of the three the whole
\* filesystem is as it was when clone_tree was called.
C2_FailFast ==
  pc = "done" =>
    /\ ~Exists(fs0, Src) => result.tag = "SourceNotFound" /\ result.path = Src
    /\ (Exists(fs0, Src) /\ ~IsDir(fs0, Src)) =>
         result.tag = "SourceNotDirectory" /\ result.path = Src
    /\ (IsDir(fs0, Src) /\ Exists(fs0, Dest) /\ ~options.overwrite) =>
         result.tag = "DestinationExists" /\ result.path = Dest
    /\ result.tag \in ValidationErrors => fs = fs0

C2_Witness ==
  /\ pc = "done"
  /\ result.tag = "SourceNotFound"
  /\ IsDir(fs0, Dest) /\ FilesUnder(fs0, Dest) # {}
  /\ ~options.overwrite

\* ---------------------------------------------------------------------- C3
\* C3: when a glob pattern does not compile, clone_tree fails with
\* InvalidGlob and nothing in the filesystem has changed: a destination
\* that did not exist before the call still does not exist.
C3_InvalidGlobMutationFree ==
  (pc = "done" /\ result.tag = "InvalidGlob") => fs = fs0

\* ------------------------------------------------------- patterns and paths
\* The pattern is an exclude pattern.
IsExclude(g) == g # <<>> /\ Head(g) = "!"

\* The pattern, compiled, matches the relative path.
PatternMatches(g, r) == ParseGlob(g).valid /\ GlobMatch(ParseGlob(g).toks, r)

\* The ancestor directories of a relative path, below the root.
Ancestors(r) == { SubSeq(r, 1, k) : k \in 1..(Len(r) - 1) }

\* Some pattern of that kind matches the path or one of its ancestors.
MatchesSome(globs, exclude, r) ==
  \E i \in 1..Len(globs) : \E q \in Ancestors(r) \cup {r} :
    IsExclude(globs[i]) = exclude /\ PatternMatches(globs[i], q)

\* The position of the last pattern of the list that matches the path, 0
\* when none does.
LastMatch(globs, r) ==
  LET hits == { i \in 1..Len(globs) : PatternMatches(globs[i], r) }
  IN IF hits = {} THEN 0 ELSE CHOOSE i \in hits : \A j \in hits : j <= i

\* The last pattern that matches the path is an exclude pattern.
ExcludedLast(globs, r) ==
  LastMatch(globs, r) # 0 /\ IsExclude(globs[LastMatch(globs, r)])

\* The last pattern that matches the path is an include pattern.
IncludedLast(globs, r) ==
  LastMatch(globs, r) # 0 /\ ~IsExclude(globs[LastMatch(globs, r)])

HasInclude(globs) == \E i \in 1..Len(globs) : ~IsExclude(globs[i])

\* ---------------------------------------------------------------------- C4
\* C4 as stated: a source file that matches, itself or by an ancestor
\* directory, some exclude pattern is not copied, whatever include patterns
\* the list holds and wherever in the list they stand.
C4_ExcludeDominance ==
  Succeeded =>
    \A r \in FilesUnder(fs, Src) :
      MatchesSome(options.globs, TRUE, r) => r \notin CopiedSet

\* C4 as amended: a source file is not copied when the last pattern of the
\* list that matches it is an exclude pattern, or when that is so for one
\* of its ancestor directories; a later include pattern that matches the
\* same path overrides an earlier exclude pattern.
C4_LastExcludeDominance ==
  Succeeded =>
    \A r \in FilesUnder(fs, Src) :
      (\E q \in Ancestors(r) \cup {r} : ExcludedLast(options.globs, q))
        => r \notin CopiedSet

\* An excluded directory hides a file that an include pattern matches,
\* while the same include pattern lets a.txt through.
C4_Witness ==
  /\ Succeeded
  /\ <<"data", "a.txt">> \in FilesUnder(fs, Src)
  /\ ExcludedLast(options.globs, <<"data">>)
  /\ IncludedLast(options.globs, <<"data", "a.txt">>)
  /\ <<"a.txt">> \in CopiedSet
  /\ <<"data", "a.txt">> \notin CopiedSet

\* ---------------------------------------------------------------------- C6
\* C6 as stated: with an include pattern in the list, a source file is
\* copied exactly when it or an ancestor directory matches some include
\* pattern and neither it nor an ancestor matches an exclude pattern.
C6_IncludeWhitelist ==
  (Succeeded /\ HasInclude(options.globs)) =>
    \A r \in FilesUnder(fs, Src) :
      r \in CopiedSet <=>
        (MatchesSome(options.globs, FALSE, r) /\ ~MatchesSome(options.globs, TRUE, r))

\* C6 as amended: with an include pattern in the list, a source file is
\* copied exactly when the last pattern that matches the file itself is an
\* include pattern and no ancestor directory has an exclude pattern as the
\* last pattern matching it; a directory that matches no include pattern
\* is still descended into, and in a destination created by the call the
\* files are exactly the copied ones.
C6_LastIncludeWhitelist ==
  (Succeeded /\ HasInclude(options.globs)) =>
    /\ \A r \in FilesUnder(fs, Src) :
         r \in CopiedSet <=>
           /\ IncludedLast(options.globs, r)
           /\ \A q \in Ancestors(r) : ~ExcludedLast(options.globs, q)
    /\ ~Exists(fs0, Dest) => FilesUnder(fs, Dest) = CopiedSet

\* A file below a directory that no pattern matches is copied, and its
\* sibling that no include pattern matches is not.
C6_Witness ==
  /\ Succeeded /\ HasInclude(options.globs) /\ ~Exists(fs0, Dest)
  /\ LastMatch(options.globs, <<"data">>) = 0
  /\ <<"data", "a.txt">> \in CopiedSet
  /\ <<"data", "b.log">> \in FilesUnder(fs, Src)
  /\ ~IsFile(fs, Join(Dest, <<"data", "b.log">>))

\* ---------------------------------------------------------------------- C5
\* C5: after a successful clone into an existing directory with overwrite
\* set, every file the destination had whose relative path is not that of
\* a copied source file is there unchanged, and every copied file's
\* destination path holds the source content, old content replaced.
C5_OverwriteMerge ==
  (Succeeded /\ options.overwrite /\ IsDir(fs0, Dest)) =>
    /\ \A r \in FilesUnder(fs0, Dest) \ CopiedSet :
         NodeAt(fs, Join(Dest, r)) = NodeAt(fs0, Join(Dest, r))
    /\ \A r \in CopiedSet : Mirrors(fs, r)

\* An older a.txt was replaced while keep.txt, in the destination only,
\* stayed, in the root and in data/.
C5_Witness ==
  /\ Succeeded /\ options.overwrite /\ run = 1
  /\ NodeAt(fs0, Join(Dest, <<"a.txt">>)) = File(0)
  /\ NodeAt(fs0, Join(Dest, <<"data", "a.txt">>)) = File(0)
  /\ { <<"a.txt">>, <<"data", "a.txt">> } \subseteq CopiedSet
  /\ NodeAt(fs, Join(Dest, <<"a.txt">>)) = File(1)
  /\ IsFile(fs, Join(Dest, <<"keep.txt">>))
  /\ IsFile(fs, Join(Dest, <<"data", "keep.txt">>))

\* ---------------------------------------------------------------------- C7
\* C7: when clone_tree with overwrite set has succeeded, the same call made
\* again on the unchanged source succeeds too and leaves the destination
\* tree, paths and contents, as the first call left it.
C7_Idempotent ==
  (run > 1 /\ options.overwrite /\ pc = "done") => (result = Ok /\ fs = fs0)

\* The second call has copied files again, into a destination that held
\* other files before the first.
C7_Witness ==
  /\ run = 2 /\ options.overwrite /\ pc = "done"
  /\ Len(options.globs) > 0
  /\ Len(copied) >= 2
  /\ IsFile(fs, Join(Dest, <<"keep.txt">>))

\* ---------------------------------------------------------------------- C8
\* C8: a clone that ends because one file's content could not be put at
\* its destination path, the removal of an existing destination entry
\* included, ends with the Copy error that names the source and the
\* destination path, and the files copied before are in the destination.
C8_CopyFailureTaxonomy ==
  (pc = "done" /\ result.tag \notin
     ({"Ok", "InvalidGlob", "CreateDirectory"} \cup ValidationErrors)) =>
    /\ result.tag = "Copy"
    /\ result.src = Join(Src, entry)
    /\ result.dest = Join(Dest, entry)
    /\ \A r \in CopiedSet : Mirrors(fs, r)

\* ---------------------------------------------------------------------- C9
\* C9: when no_reflink is set, no copy-on-write clone is tried for any file
\* of the invocation.
C9_NoReflinkHonoured ==
  no_reflink => cloned = {}

\* --------------------------------------------------------------------- C10
\* The source files the walker reaches and does not skip.
Included(f, globs) ==
  { r \in FilesUnder(f, Src) :
      /\ \A q \in Ancestors(r) : ~ExcludedLast(globs, q)
      /\ IF HasInclude(globs) THEN IncludedLast(globs, r) ELSE ~ExcludedLast(globs, r) }

C11_CacheIsPureOptimization ==
  pc = "walk" =>
    \A e \in NextEntries(fs, overrides, stack, yielded) :
      IsFile(fs, Join(Src, e.rel)) =>
        LET parent == Parent(DestPath(Join(Src, e.rel)))
        IN EnsureParent(fs, created_dirs, parent) = CreateDirAll(fs, parent)

====
